---- MODULE Spec2Model ----
(***************************************************************************)
(* Harvest records (Colheita), the in-memory record store                  *)
(* (ColheitaService) and the efficiency calculator of farmtech2.           *)
(*                                                                         *)
(* Conventions of the model                                                *)
(*   - a Python str is a sequence of one-character strings;                *)
(*   - a tonnage is an integer number of tons;                             *)
(*   - a percentage is an integer number of hundredths of a percent        *)
(*     (80.00 % is 8000), so round(x, 2) is rounding to an integer;        *)
(*   - a loosely typed input (a JSON value, a constructor argument) is a   *)
(*     tagged value [k, n]: a number, None, a numeric string or a string   *)
(*     that float() rejects.                                               *)
(***************************************************************************)
EXTENDS Integers, Sequences, FiniteSets, TLC

VARIABLES
    colheitas,   \* ColheitaService.colheitas: the ordered list of records
    arquivo,     \* the JSON file at ARQUIVO_JSON
    limites,     \* config.LIMITES_TONELADAS of the running process
    last,        \* the last service call: name, argument, result, store before
    ent,         \* arguments of a Colheita(...) call and the limits around it
    obj,         \* outcome of that call
    copia,       \* outcome of Colheita.de_dict(obj.para_dict())
    cin,         \* arguments of _calcular_eficiencia
    cout,        \* its result
    arred,       \* how the doubles of calcular_estatisticas fall: the error
                 \* of each group mean and of the difference
    tabela       \* the committed rows of table COLHEITAS_CANA, oldest first

vars ==
    <<colheitas, arquivo, limites, last, ent, obj, copia, cin, cout, arred,
      tabela>>
storeVars == <<colheitas, arquivo, limites, last>>
ctorVars == <<ent, obj, copia>>
calcVars == <<cin, cout>>
estVars == <<arred>>
dbVars == <<tabela>>

(***************************************************************************)
(* Bounds                                                                  *)
(***************************************************************************)
MaxStore == 3
MaxEstat == 3

(***************************************************************************)
(* Strings                                                                 *)
(***************************************************************************)
Digits == {"0", "1", "2", "3", "4", "5", "6", "7", "8", "9"}

DigitVal(c) ==
    CASE c = "0" -> 0 [] c = "1" -> 1 [] c = "2" -> 2 [] c = "3" -> 3
      [] c = "4" -> 4 [] c = "5" -> 5 [] c = "6" -> 6 [] c = "7" -> 7
      [] c = "8" -> 8 [] c = "9" -> 9

Whitespace == {" ", "\t", "\n"}

UpperCase == <<"A", "C", "E", "I", "L", "M", "N", "S", "T", "U">>
LowerCase == <<"a", "c", "e", "i", "l", "m", "n", "s", "t", "u">>

\* str.lower(), one character
LowerChar(c) ==
    IF \E i \in 1..Len(UpperCase) : UpperCase[i] = c
    THEN LowerCase[CHOOSE i \in 1..Len(UpperCase) : UpperCase[i] = c]
    ELSE c

\* str.lower()
lower(s) == [i \in 1..Len(s) |-> LowerChar(s[i])]

RECURSIVE lstrip(_)
lstrip(s) ==
    IF s # <<>> /\ Head(s) \in Whitespace THEN lstrip(Tail(s)) ELSE s

RECURSIVE rstrip(_)
rstrip(s) ==
    IF s # <<>> /\ s[Len(s)] \in Whitespace
    THEN rstrip(SubSeq(s, 1, Len(s) - 1))
    ELSE s

\* str.strip()
strip(s) == rstrip(lstrip(s))

(***************************************************************************)
(* Loosely typed values and float()                                        *)
(***************************************************************************)
Num(n) == [k |-> "num", n |-> n]
StrNum(n) == [k |-> "str", n |-> n]
BadStr == [k |-> "badstr", n |-> 0]
NoneV == [k |-> "none", n |-> 0]

\* float(v) raises ValueError or TypeError
FloatRaises(v) == v.k \in {"badstr", "none"}

\* float(v) when it does not raise
Float(v) == v.n

(***************************************************************************)
(* Configuration                                                           *)
(***************************************************************************)
manual == <<"m", "a", "n", "u", "a", "l">>
mecanica == <<"m", "e", "c", "a", "n", "i", "c", "a">>

TIPOS_COLHEITA == {manual, mecanica}

\* Alternative contents of LIMITES_TONELADAS:
\* <<predicted_min, predicted_max, harvested_min, harvested_max>>
LimA == <<0, 4, 0, 4>>
LimB == <<1, 4, 0, 2>>
LimitConfigs == {LimA, LimB}

(***************************************************************************)
(* Colheita: validation                                                    *)
(***************************************************************************)
_validar_id_lote(id_lote) == strip(id_lote) # <<>>

_validar_tipo(tipo) == lower(tipo) \in TIPOS_COLHEITA

\* re.compile(r'^\d{2}/\d{2}/\d{4}$').match(data); '$' also matches before
\* a final newline
padrao(data) ==
    /\ \/ Len(data) = 10
       \/ Len(data) = 11 /\ data[11] = "\n"
    /\ \A i \in {1, 2, 4, 5, 7, 8, 9, 10} : data[i] \in Digits
    /\ data[3] = "/"
    /\ data[6] = "/"

\* int() of the digits data[a..b]
RECURSIVE ParseInt(_, _, _)
ParseInt(data, a, b) ==
    IF a > b THEN 0
    ELSE 10 * ParseInt(data, a, b - 1) + DigitVal(data[b])

\* variant: every fourth year a leap year
IsLeap_quarto_ano(ano) == ano % 4 = 0

IsLeap(ano) == (ano % 4 = 0 /\ ano % 100 # 0) \/ ano % 400 = 0

DaysInMonth(ano, mes) ==
    IF mes = 2 THEN (IF IsLeap(ano) THEN 29 ELSE 28)
    ELSE IF mes \in {4, 6, 9, 11} THEN 30 ELSE 31

MINYEAR == 1
MAXYEAR == 9999

\* datetime(ano, mes, dia) does not raise ValueError
DatetimeOk(ano, mes, dia) ==
    /\ MINYEAR <= ano /\ ano <= MAXYEAR
    /\ 1 <= mes /\ mes <= 12
    /\ 1 <= dia /\ dia <= DaysInMonth(ano, mes)

_validar_data(data) ==
    IF ~padrao(data) THEN FALSE
    ELSE DatetimeOk(ParseInt(data, 7, 10), ParseInt(data, 4, 5),
                    ParseInt(data, 1, 2))

_validar_previsto(previsto, lim) ==
    IF FloatRaises(previsto) THEN FALSE
    ELSE lim[1] <= Float(previsto) /\ Float(previsto) <= lim[2]

_validar_colhido(colhido, lim) ==
    IF FloatRaises(colhido) THEN FALSE
    ELSE lim[3] <= Float(colhido) /\ Float(colhido) <= lim[4]

(***************************************************************************)
(* Colheita: efficiency                                                    *)
(***************************************************************************)
\* floor(a / b) for b > 0 and any integer a
FloorDiv(a, b) == a \div b

\* round(a / b) to an integer, b > 0.  Python rounds the binary double it is
\* given: a value that is not a decimal tie goes to the nearest integer; at a
\* decimal tie the double holding the computed value lies just below (d = -1),
\* exactly on (d = 0, round-half-to-even) or just above (d = 1) the tie.
Round2(a, b, d) ==
    LET f == FloorDiv(a, b)
        r2 == 2 * (a - f * b)
    IN  IF r2 < b THEN f
        ELSE IF r2 > b THEN f + 1
        ELSE IF d < 0 THEN f
        ELSE IF d > 0 THEN f + 1
        ELSE IF f % 2 = 0 THEN f ELSE f + 1

FloatErr == {-1, 0, 1}

\* main.calcular_eficiencia: <<eficiencia, perda>> in hundredths of a
\* percent; the interactive flow's calculation has no cap at 100 %
calcular_eficiencia(previsto, colhido, fe, fl) ==
    IF previsto <= 0 THEN <<0, 0>>
    ELSE <<Round2(colhido * 10000, previsto, fe),
           Round2(10000 * previsto - colhido * 10000, previsto, fl)>>

\* variant: the loss taken from the fraction colhido / previsto instead of
\* the percentage
_calcular_eficiencia_perda_fracao(previsto, colhido, fe, fl) ==
    IF previsto <= 0 THEN <<0, 0>>
    ELSE IF colhido * 10000 > 10000 * previsto THEN <<10000, 0>>
    ELSE <<Round2(colhido * 10000, previsto, fe),
           Round2(10000 * previsto - colhido * 100, previsto, fl)>>

\* variant: nothing predicted reported as a total loss
_calcular_eficiencia_perda_total(previsto, colhido, fe, fl) ==
    IF previsto <= 0 THEN <<0, 10000>>
    ELSE IF colhido * 10000 > 10000 * previsto THEN <<10000, 0>>
    ELSE <<Round2(colhido * 10000, previsto, fe),
           Round2(10000 * previsto - colhido * 10000, previsto, fl)>>

\* variant: the calculation without the cap at 100 %
_calcular_eficiencia_sem_teto(previsto, colhido, fe, fl) ==
    IF previsto <= 0 THEN <<0, 0>>
    ELSE <<Round2(colhido * 10000, previsto, fe),
           Round2(10000 * previsto - colhido * 10000, previsto, fl)>>

\* Colheita._calcular_eficiencia: <<eficiencia, perda>> in hundredths of a
\* percent.  fe and fl are the directions of the floating-point error of
\* (colhido / previsto) * 100 and of 100 - eficiencia at a decimal tie.
_calcular_eficiencia(previsto, colhido, fe, fl) ==
    IF previsto <= 0 THEN <<0, 0>>
    ELSE IF colhido * 10000 > 10000 * previsto THEN <<10000, 0>>
    ELSE <<Round2(colhido * 10000, previsto, fe),
           Round2(10000 * previsto - colhido * 10000, previsto, fl)>>

(***************************************************************************)
(* Colheita: construction and (de)serialisation                            *)
(***************************************************************************)
NoRec ==
    [id_lote |-> <<>>, tipo |-> <<>>, data |-> <<>>, previsto |-> 0,
     colhido |-> 0, obs |-> <<>>, eficiencia |-> 0, perda |-> 0]

Raise(e) == [ok |-> FALSE, err |-> e, rec |-> NoRec]

\* variant: the constructor that checks tipo before id_lote
Colheita_tipo_primeiro(id_lote, tipo, data, previsto, colhido, obs, eficiencia, perda, lim, fe, fl) ==
    IF ~_validar_tipo(tipo) THEN Raise("tipo")
    ELSE IF ~_validar_id_lote(id_lote) THEN Raise("id_lote")
    ELSE IF ~_validar_data(data) THEN Raise("data")
    ELSE IF ~_validar_previsto(previsto, lim) THEN Raise("previsto")
    ELSE IF ~_validar_colhido(colhido, lim) THEN Raise("colhido")
    ELSE LET base == [id_lote |-> id_lote, tipo |-> lower(tipo),
                      data |-> data, previsto |-> Float(previsto),
                      colhido |-> Float(colhido), obs |-> obs,
                      eficiencia |-> 0, perda |-> 0]
         IN  IF eficiencia = NoneV \/ perda = NoneV
             THEN LET ep == _calcular_eficiencia(base.previsto, base.colhido,
                                                 fe, fl)
                  IN  [ok |-> TRUE, err |-> "",
                       rec |-> [base EXCEPT !.eficiencia = ep[1],
                                            !.perda = ep[2]]]
             ELSE IF FloatRaises(eficiencia) \/ FloatRaises(perda)
             THEN Raise("float")
             ELSE [ok |-> TRUE, err |-> "",
                   rec |-> [base EXCEPT !.eficiencia = Float(eficiencia),
                                        !.perda = Float(perda)]]

\* variant: the constructor that stores tipo as it was given
Colheita_sem_lower(id_lote, tipo, data, previsto, colhido, obs, eficiencia, perda, lim, fe, fl) ==
    IF ~_validar_id_lote(id_lote) THEN Raise("id_lote")
    ELSE IF ~_validar_tipo(tipo) THEN Raise("tipo")
    ELSE IF ~_validar_data(data) THEN Raise("data")
    ELSE IF ~_validar_previsto(previsto, lim) THEN Raise("previsto")
    ELSE IF ~_validar_colhido(colhido, lim) THEN Raise("colhido")
    ELSE LET base == [id_lote |-> id_lote, tipo |-> tipo,
                      data |-> data, previsto |-> Float(previsto),
                      colhido |-> Float(colhido), obs |-> obs,
                      eficiencia |-> 0, perda |-> 0]
         IN  IF eficiencia = NoneV \/ perda = NoneV
             THEN LET ep == _calcular_eficiencia(base.previsto, base.colhido,
                                                 fe, fl)
                  IN  [ok |-> TRUE, err |-> "",
                       rec |-> [base EXCEPT !.eficiencia = ep[1],
                                            !.perda = ep[2]]]
             ELSE IF FloatRaises(eficiencia) \/ FloatRaises(perda)
             THEN Raise("float")
             ELSE [ok |-> TRUE, err |-> "",
                   rec |-> [base EXCEPT !.eficiencia = Float(eficiencia),
                                        !.perda = Float(perda)]]

\* variant: the constructor that always derives efficiency and loss
Colheita_recalcula(id_lote, tipo, data, previsto, colhido, obs, eficiencia, perda, lim, fe, fl) ==
    IF ~_validar_id_lote(id_lote) THEN Raise("id_lote")
    ELSE IF ~_validar_tipo(tipo) THEN Raise("tipo")
    ELSE IF ~_validar_data(data) THEN Raise("data")
    ELSE IF ~_validar_previsto(previsto, lim) THEN Raise("previsto")
    ELSE IF ~_validar_colhido(colhido, lim) THEN Raise("colhido")
    ELSE LET ep == _calcular_eficiencia(Float(previsto), Float(colhido),
                                        fe, fl)
         IN  [ok |-> TRUE, err |-> "",
              rec |-> [id_lote |-> id_lote, tipo |-> lower(tipo),
                       data |-> data, previsto |-> Float(previsto),
                       colhido |-> Float(colhido), obs |-> obs,
                       eficiencia |-> ep[1], perda |-> ep[2]]]

\* Colheita.__init__: the record, or the error raised
Colheita(id_lote, tipo, data, previsto, colhido, obs, eficiencia, perda, lim, fe, fl) ==
    IF ~_validar_id_lote(id_lote) THEN Raise("id_lote")
    ELSE IF ~_validar_tipo(tipo) THEN Raise("tipo")
    ELSE IF ~_validar_data(data) THEN Raise("data")
    ELSE IF ~_validar_previsto(previsto, lim) THEN Raise("previsto")
    ELSE IF ~_validar_colhido(colhido, lim) THEN Raise("colhido")
    ELSE LET base == [id_lote |-> id_lote, tipo |-> lower(tipo),
                      data |-> data, previsto |-> Float(previsto),
                      colhido |-> Float(colhido), obs |-> obs,
                      eficiencia |-> 0, perda |-> 0]
         IN  IF eficiencia = NoneV \/ perda = NoneV
             THEN LET ep == _calcular_eficiencia(base.previsto, base.colhido,
                                                 fe, fl)
                  IN  [ok |-> TRUE, err |-> "",
                       rec |-> [base EXCEPT !.eficiencia = ep[1],
                                            !.perda = ep[2]]]
             ELSE IF FloatRaises(eficiencia) \/ FloatRaises(perda)
             THEN Raise("float")
             ELSE [ok |-> TRUE, err |-> "",
                   rec |-> [base EXCEPT !.eficiencia = Float(eficiencia),
                                        !.perda = Float(perda)]]

AllKeys ==
    {"id_lote", "tipo", "data", "previsto", "colhido",
     "eficiencia", "perda", "obs"}
RequiredKeys == {"id_lote", "tipo", "data", "previsto", "colhido"}

\* variant: a dictionary without the derived values
para_dict_sem_derivados(c) ==
    [chaves |-> AllKeys \ {"eficiencia", "perda"},
     id_lote |-> c.id_lote, tipo |-> c.tipo, data |-> c.data,
     previsto |-> Num(c.previsto), colhido |-> Num(c.colhido),
     eficiencia |-> Num(c.eficiencia), perda |-> Num(c.perda),
     obs |-> c.obs]

\* Colheita.para_dict
para_dict(c) ==
    [chaves |-> AllKeys,
     id_lote |-> c.id_lote, tipo |-> c.tipo, data |-> c.data,
     previsto |-> Num(c.previsto), colhido |-> Num(c.colhido),
     eficiencia |-> Num(c.eficiencia), perda |-> Num(c.perda),
     obs |-> c.obs]

\* Colheita.de_dict: a missing required key raises KeyError, a missing
\* optional key takes the default of dict.get
de_dict(d, lim, fe, fl) ==
    IF ~(RequiredKeys \subseteq d.chaves) THEN Raise("KeyError")
    ELSE Colheita(d.id_lote, d.tipo, d.data, d.previsto, d.colhido,
                  IF "obs" \in d.chaves THEN d.obs ELSE <<>>,
                  IF "eficiencia" \in d.chaves THEN d.eficiencia ELSE NoneV,
                  IF "perda" \in d.chaves THEN d.perda ELSE NoneV,
                  lim, fe, fl)

(***************************************************************************)
(* ColheitaService: the record store                                       *)
(***************************************************************************)
\* index of the first record of store with this id_lote, 0 when there is none
IndexOf(store, id_lote) ==
    IF \E i \in 1..Len(store) : store[i].id_lote = id_lote
    THEN CHOOSE i \in 1..Len(store) :
            /\ store[i].id_lote = id_lote
            /\ \A j \in 1..(i - 1) : store[j].id_lote # id_lote
    ELSE 0

\* del self.colheitas[i]
DelAt(store, i) ==
    [j \in 1..(Len(store) - 1) |-> IF j < i THEN store[j] ELSE store[j + 1]]

\* variant: the upsert that never looks for an existing id_lote
adicionar_colheita_sempre_append(store, colheita) == Append(store, colheita)

\* variant: the upsert that removes the existing record and appends the new
\* one at the end
adicionar_colheita_move_fim(store, colheita) ==
    LET i == IndexOf(store, colheita.id_lote)
    IN  IF i # 0 THEN Append(DelAt(store, i), colheita)
        ELSE Append(store, colheita)

\* ColheitaService.adicionar_colheita: the list afterwards (it returns True
\* on both paths)
adicionar_colheita(store, colheita) ==
    LET i == IndexOf(store, colheita.id_lote)
    IN  IF i # 0 THEN [store EXCEPT ![i] = colheita]
        ELSE Append(store, colheita)

\* ColheitaService.remover_colheita: the value returned and the list afterwards
remover_colheita(store, id_lote) ==
    LET i == IndexOf(store, id_lote)
    IN  IF i # 0 THEN [ret |-> TRUE, colheitas |-> DelAt(store, i)]
        ELSE [ret |-> FALSE, colheitas |-> store]

\* ColheitaService.obter_colheita: the record found, or None
obter_colheita(store, id_lote) ==
    LET i == IndexOf(store, id_lote)
    IN  IF i # 0 THEN [found |-> TRUE, rec |-> store[i]]
        ELSE [found |-> FALSE, rec |-> NoRec]

\* the file states: no file, a file json.load rejects, a JSON document that
\* is a number, a JSON array of objects
Ausente == [kind |-> "ausente", dados |-> <<>>]
Malformado == [kind |-> "malformado", dados |-> <<>>]
Escalar == [kind |-> "escalar", dados |-> <<>>]
Lista(dados) == [kind |-> "lista", dados |-> dados]

\* ColheitaService.salvar_json when nothing raises: the file written
salvar_json(store) == Lista([i \in 1..Len(store) |-> para_dict(store[i])])

\* variant: the load that appends record after record to the list and stops
\* at the first one that raises
carregar_json_parcial(store, arq, lim, fe, fl) ==
    IF arq.kind # "lista" THEN [ret |-> FALSE, colheitas |-> store]
    ELSE LET objs == [i \in 1..Len(arq.dados) |->
                          de_dict(arq.dados[i], lim, fe, fl)]
             bad == {i \in 1..Len(objs) : ~objs[i].ok}
         IN  IF bad = {}
             THEN [ret |-> TRUE,
                   colheitas |-> [i \in 1..Len(objs) |-> objs[i].rec]]
             ELSE [ret |-> FALSE,
                   colheitas |->
                       [i \in 1..((CHOOSE b \in bad :
                                      \A c \in bad : b <= c) - 1) |->
                           objs[i].rec]]

\* ColheitaService.carregar_json: the value returned and the list afterwards.
\* The comprehension builds the whole list before self.colheitas is assigned;
\* any exception is caught and False is returned.
carregar_json(store, arq, lim, fe, fl) ==
    IF arq.kind # "lista" THEN [ret |-> FALSE, colheitas |-> store]
    ELSE LET objs == [i \in 1..Len(arq.dados) |->
                          de_dict(arq.dados[i], lim, fe, fl)]
         IN  IF \A i \in 1..Len(objs) : objs[i].ok
             THEN [ret |-> TRUE,
                   colheitas |-> [i \in 1..Len(objs) |-> objs[i].rec]]
             ELSE [ret |-> FALSE, colheitas |-> store]

(***************************************************************************)
(* ColheitaService: statistics.  A mean is kept as the exact fraction      *)
(* num / den together with err, the sign of the error of the double that   *)
(* sum(...) / len(...) produced: below (-1), on (0) or above (1) the exact *)
(* value.  A single value and the empty group's 0 carry no error.         *)
(***************************************************************************)
Abs(x) == IF x < 0 THEN -x ELSE x

Sign(x) == IF x < 0 THEN -1 ELSE IF x > 0 THEN 1 ELSE 0

\* [c for c in self.colheitas if c.tipo == tipo]
Grupo(store, tipo) ==
    LET DoTipo(c) == c.tipo = tipo
    IN  SelectSeq(store, DoTipo)

RECURSIVE SomaEficiencia(_)
SomaEficiencia(grupo) ==
    IF grupo = <<>> THEN 0
    ELSE Head(grupo).eficiencia + SomaEficiencia(Tail(grupo))

\* variant: the mean over one record more than the group holds
Media_conta_mais_um(grupo, e) ==
    IF grupo = <<>> THEN [num |-> 0, den |-> 1, err |-> 0]
    ELSE [num |-> SomaEficiencia(grupo), den |-> Len(grupo) + 1,
          err |-> IF Len(grupo) >= 2 THEN e ELSE 0]

\* sum(c.eficiencia for c in grupo) / len(grupo) if grupo else 0
Media(grupo, e) ==
    IF grupo = <<>> THEN [num |-> 0, den |-> 1, err |-> 0]
    ELSE [num |-> SomaEficiencia(grupo), den |-> Len(grupo),
          err |-> IF Len(grupo) >= 2 THEN e ELSE 0]

\* the comparison of two means as doubles: 1 when a > b, -1 when a < b
Compara(a, b) ==
    LET exato == Sign(a.num * b.den - b.num * a.den)
    IN  IF exato # 0 THEN exato ELSE Sign(a.err - b.err)

\* round(media, 2)
MediaArredondada(m) == Round2(m.num, m.den, m.err)

\* variant: the difference without abs
Diferenca_sem_abs(a, b, e) ==
    Round2(a.num * b.den - b.num * a.den, a.den * b.den, e)

\* round(abs(efic_manual - efic_mecanica), 2), which is also what
\* f"{diferenca:.2f}" prints
Diferenca(a, b, e) ==
    Round2(Abs(a.num * b.den - b.num * a.den), a.den * b.den, e)

\* one recommendation: its text and the number formatted into it
Recomendacao(texto, valor) == [texto |-> texto, valor |-> valor]

SemDados == Recomendacao("Nao ha dados suficientes para analise.", 0)
ManualMelhor(dif) ==
    Recomendacao("A colheita manual esta {diferenca:.2f}% mais eficiente que a mecanica.", dif)
Calibracao ==
    Recomendacao("Verifique a calibracao das maquinas colhedoras.", 0)
Treinamento == Recomendacao("Revise o treinamento dos operadores.", 0)
MecanicaMelhor(dif) ==
    Recomendacao("A colheita mecanica esta {diferenca:.2f}% mais eficiente que a manual.", dif)
Procedimentos ==
    Recomendacao("Analise os procedimentos da colheita manual.", 0)
EquipeDeCampo ==
    Recomendacao("Considere treinar melhor a equipe de campo.", 0)
Similar ==
    Recomendacao("Ambos os metodos de colheita apresentam eficiencia similar.", 0)
ApenasManual ==
    Recomendacao("Existem apenas registros de colheita manual. Considere registrar colheitas mecanicas para comparacao.", 0)
ApenasMecanica ==
    Recomendacao("Existem apenas registros de colheita mecanica. Considere registrar colheitas manuais para comparacao.", 0)

\* the recommendations of calcular_estatisticas for a store that is not empty
Recomendacoes(manuais, mecanicas, efic_manual, efic_mecanica, dif) ==
    IF manuais # <<>> /\ mecanicas # <<>>
    THEN IF Compara(efic_manual, efic_mecanica) > 0
         THEN <<ManualMelhor(dif), Calibracao, Treinamento>>
         ELSE IF Compara(efic_manual, efic_mecanica) < 0
         THEN <<MecanicaMelhor(dif), Procedimentos, EquipeDeCampo>>
         ELSE <<Similar>>
    ELSE IF manuais # <<>> THEN <<ApenasManual>>
    ELSE IF mecanicas # <<>> THEN <<ApenasMecanica>>
    ELSE <<>>

Estatisticas(total, n_manual, m_manual, n_mecanica, m_mecanica, dif, recs) ==
    [total |-> total,
     manual |-> [total |-> n_manual, eficiencia_media |-> m_manual],
     mecanica |-> [total |-> n_mecanica, eficiencia_media |-> m_mecanica],
     diferenca |-> dif,
     recomendacoes |-> recs]

NoEst == Estatisticas(0, 0, 0, 0, 0, 0, <<>>)

\* variant: no special case for the empty store
calcular_estatisticas_sem_caso_vazio(store, ar) ==
    LET colheitas_manuais == Grupo(store, manual)
        colheitas_mecanicas == Grupo(store, mecanica)
        efic_manual == Media(colheitas_manuais, ar.manual)
        efic_mecanica == Media(colheitas_mecanicas, ar.mecanica)
        diferenca == Diferenca(efic_manual, efic_mecanica, ar.diferenca)
    IN  Estatisticas(Len(store),
                     Len(colheitas_manuais),
                     MediaArredondada(efic_manual),
                     Len(colheitas_mecanicas),
                     MediaArredondada(efic_mecanica),
                     diferenca,
                     Recomendacoes(colheitas_manuais, colheitas_mecanicas,
                                   efic_manual, efic_mecanica, diferenca))

\* ColheitaService.calcular_estatisticas
calcular_estatisticas(store, ar) ==
    IF store = <<>>
    THEN Estatisticas(0, 0, 0, 0, 0, 0, <<SemDados>>)
    ELSE LET colheitas_manuais == Grupo(store, manual)
             colheitas_mecanicas == Grupo(store, mecanica)
             efic_manual == Media(colheitas_manuais, ar.manual)
             efic_mecanica == Media(colheitas_mecanicas, ar.mecanica)
             diferenca == Diferenca(efic_manual, efic_mecanica, ar.diferenca)
         IN  Estatisticas(Len(store),
                          Len(colheitas_manuais),
                          MediaArredondada(efic_manual),
                          Len(colheitas_mecanicas),
                          MediaArredondada(efic_mecanica),
                          diferenca,
                          Recomendacoes(colheitas_manuais,
                                        colheitas_mecanicas,
                                        efic_manual, efic_mecanica,
                                        diferenca))

(***************************************************************************)
(* OracleService: table COLHEITAS_CANA as criar_tabela_colheitas creates   *)
(* it.  A row is the record bound to the statement; rows are kept in the   *)
(* order of ID_COLHEITA.  Each call opens a connection, and closing it     *)
(* without a commit rolls the statement back.                              *)
(***************************************************************************)
ID_LOTE_MAX == 50
TEXTO_MAX == 20
QUANTIDADE_MAX == 99999999
PERCENTUAL_MAX == 99999
OBSERVACOES_MAX == 500

\* the bind values fit the columns of the table
CabeNasColunas(c) ==
    /\ Len(c.id_lote) <= ID_LOTE_MAX
    /\ Len(c.tipo) <= TEXTO_MAX
    /\ Len(c.data) <= TEXTO_MAX
    /\ Abs(c.previsto) <= QUANTIDADE_MAX
    /\ Abs(c.colhido) <= QUANTIDADE_MAX
    /\ Abs(c.eficiencia) <= PERCENTUAL_MAX
    /\ Abs(c.perda) <= PERCENTUAL_MAX
    /\ Len(c.obs) <= OBSERVACOES_MAX

\* SELECT COUNT(*) FROM COLHEITAS_CANA WHERE ID_LOTE = :id_lote
ContaLinhas(tab, id_lote) ==
    Cardinality({i \in 1..Len(tab) : tab[i].id_lote = id_lote})

\* UPDATE COLHEITAS_CANA SET ... WHERE ID_LOTE = :id_lote
Update(tab, c) ==
    [i \in 1..Len(tab) |-> IF tab[i].id_lote = c.id_lote THEN c ELSE tab[i]]

\* INSERT INTO COLHEITAS_CANA under CONSTRAINT UK_COLHEITAS_LOTE
Insert(tab, c) ==
    IF ContaLinhas(tab, c.id_lote) > 0
    THEN [ok |-> FALSE, tabela |-> tab]
    ELSE [ok |-> TRUE, tabela |-> Append(tab, c)]

\* DELETE FROM COLHEITAS_CANA WHERE ID_LOTE = :id_lote
Delete(tab, id_lote) ==
    LET Outro(r) == r.id_lote # id_lote
    IN  SelectSeq(tab, Outro)

\* what can go wrong outside the statement: conectar() returns None, an
\* execute raises, the commit raises
Falhas == {"nenhuma", "conectar", "execute", "commit"}

\* variant: a row added whether or not the lot has one
inserir_colheita_sempre_insere(tab, c, falha) ==
    IF falha # "nenhuma" THEN [ret |-> FALSE, tabela |-> tab]
    ELSE IF ~CabeNasColunas(c) THEN [ret |-> FALSE, tabela |-> tab]
    ELSE [ret |-> TRUE, tabela |-> Append(tab, c)]

\* OracleService.inserir_colheita
inserir_colheita(tab, c, falha) ==
    IF falha # "nenhuma" THEN [ret |-> FALSE, tabela |-> tab]
    ELSE IF ContaLinhas(tab, c.id_lote) > 0
    THEN IF ~CabeNasColunas(c) THEN [ret |-> FALSE, tabela |-> tab]
         ELSE [ret |-> TRUE, tabela |-> Update(tab, c)]
    ELSE IF ~CabeNasColunas(c) THEN [ret |-> FALSE, tabela |-> tab]
    ELSE LET r == Insert(tab, c)
         IN  [ret |-> r.ok, tabela |-> r.tabela]

\* OracleService.excluir_colheita
excluir_colheita(tab, id_lote, falha) ==
    IF falha # "nenhuma" THEN [ret |-> FALSE, tabela |-> tab]
    ELSE IF ContaLinhas(tab, id_lote) > 0
    THEN [ret |-> TRUE, tabela |-> Delete(tab, id_lote)]
    ELSE [ret |-> FALSE, tabela |-> tab]

(***************************************************************************)
(* main.py: the interactive flow keeps a global list of dictionaries with  *)
(* the keys of Colheita.para_dict and reads the same file                  *)
(***************************************************************************)
tipos_validos == {manual, mecanica}

\* the dictionary json.load returns for an object of the file
DeJson(d) ==
    [id_lote |-> d.id_lote, tipo |-> d.tipo, data |-> d.data,
     previsto |-> d.previsto.n, colhido |-> d.colhido.n, obs |-> d.obs,
     eficiencia |-> d.eficiencia.n, perda |-> d.perda.n]

\* main.carregar_colheitas_json: the list afterwards, and whether the load
\* went without an exception.  abre is FALSE when open() raises; a file
\* that holds a number loads, and len() of it raises.
carregar_colheitas_json(arq, abre) ==
    IF arq.kind = "ausente" THEN [ret |-> TRUE, colheitas |-> <<>>]
    ELSE IF ~abre \/ arq.kind # "lista"
    THEN [ret |-> FALSE, colheitas |-> <<>>]
    ELSE [ret |-> TRUE,
          colheitas |-> [i \in 1..Len(arq.dados) |-> DeJson(arq.dados[i])]]

\* variant: the overwrite that replaces the dictionary where it is
registrar_colheita_no_lugar(lista, e) ==
    LET i == IndexOf(lista, e.id_lote)
        ep == calcular_eficiencia(e.previsto, e.colhido, e.fe, e.fl)
        colheita == [id_lote |-> e.id_lote, tipo |-> lower(e.tipo),
                     data |-> e.data, previsto |-> e.previsto,
                     colhido |-> e.colhido, obs |-> e.obs,
                     eficiencia |-> ep[1], perda |-> ep[2]]
    IN  IF i # 0 /\ lower(e.resposta) # <<"s">>
        THEN [ret |-> FALSE, colheitas |-> lista, rec |-> NoRec]
        ELSE [ret |-> TRUE,
              colheitas |-> IF i # 0 THEN [lista EXCEPT ![i] = colheita]
                            ELSE Append(lista, colheita),
              rec |-> colheita]

\* variant: the registration that does not look for the lot in the list
registrar_colheita_sem_busca(lista, e) ==
    LET i == IndexOf(lista, e.id_lote)
        ep == calcular_eficiencia(e.previsto, e.colhido, e.fe, e.fl)
        colheita == [id_lote |-> e.id_lote, tipo |-> lower(e.tipo),
                     data |-> e.data, previsto |-> e.previsto,
                     colhido |-> e.colhido, obs |-> e.obs,
                     eficiencia |-> ep[1], perda |-> ep[2]]
    IN  IF i # 0 /\ lower(e.resposta) # <<"s">>
        THEN [ret |-> FALSE, colheitas |-> lista, rec |-> NoRec]
        ELSE [ret |-> TRUE, colheitas |-> Append(lista, colheita),
              rec |-> colheita]

\* main.registrar_colheita run to its end on the answers e: whether a
\* dictionary was appended, the list afterwards and the dictionary
registrar_colheita(lista, e) ==
    LET i == IndexOf(lista, e.id_lote)
        ep == calcular_eficiencia(e.previsto, e.colhido, e.fe, e.fl)
        colheita == [id_lote |-> e.id_lote, tipo |-> lower(e.tipo),
                     data |-> e.data, previsto |-> e.previsto,
                     colhido |-> e.colhido, obs |-> e.obs,
                     eficiencia |-> ep[1], perda |-> ep[2]]
    IN  IF i # 0 /\ lower(e.resposta) # <<"s">>
        THEN [ret |-> FALSE, colheitas |-> lista, rec |-> NoRec]
        ELSE [ret |-> TRUE,
              colheitas |-> Append(IF i # 0 THEN DelAt(lista, i) ELSE lista,
                                   colheita),
              rec |-> colheita]

(***************************************************************************)
(* Inputs of the store model                                               *)
(***************************************************************************)
L1 == <<"L", "1">>
L2 == <<"L", "2">>
L3 == <<"L", "3">>
L1sp == <<" ", "L", "1">>
Blank == <<" ", "\t">>

D29fev == <<"2", "9", "/", "0", "2", "/", "2", "0", "2", "4">>
D31fev == <<"3", "1", "/", "0", "2", "/", "2", "0", "2", "4">>

Args(id_lote, tipo, data, previsto, colhido, obs, eficiencia, perda) ==
    [id_lote |-> id_lote, tipo |-> tipo, data |-> data,
     previsto |-> previsto, colhido |-> colhido, obs |-> obs,
     eficiencia |-> eficiencia, perda |-> perda]

\* the constructor applied to an argument record
Construct(a, lim, fe, fl) ==
    Colheita(a.id_lote, a.tipo, a.data, a.previsto, a.colhido, a.obs,
             a.eficiencia, a.perda, lim, fe, fl)

StoreIds == {L1, L2}
QueryIds == {L1, L2, L3, L1sp}

\* what callers of the service construct: a derived 50 % record and a record
\* given its efficiency and loss explicitly
StoreArgs ==
    UNION {{Args(id, manual, D29fev, Num(2), Num(1), <<>>, NoneV, NoneV),
            Args(id, <<"M", "E", "C", "A", "N", "I", "C", "A">>, D29fev,
                 Num(4), StrNum(2), <<"x">>, Num(25000), Num(-15000))}
           : id \in StoreIds}

\* the Colheita objects a caller can hold under the limits lim
Objetos(lim) ==
    {Construct(a, lim, 0, 0).rec :
        a \in {b \in StoreArgs : Construct(b, lim, 0, 0).ok}}

Dict(chaves, a) ==
    [chaves |-> chaves, id_lote |-> a.id_lote, tipo |-> a.tipo,
     data |-> a.data, previsto |-> a.previsto, colhido |-> a.colhido,
     eficiencia |-> a.eficiencia, perda |-> a.perda, obs |-> a.obs]

DictA == Dict(AllKeys, Args(L1, manual, D29fev, Num(2), Num(1), <<>>,
                            Num(5000), Num(5000)))
DictB == Dict(AllKeys, Args(L1, mecanica, D29fev, Num(2), Num(2), <<>>,
                            Num(10000), Num(0)))
DictC == Dict(AllKeys, Args(L2, manual, D29fev, Num(2), Num(3), <<>>,
                            Num(15000), Num(-5000)))
DictBadRange == Dict(AllKeys, Args(L2, manual, D29fev, Num(9), Num(1), <<>>,
                                   Num(1111), Num(8889)))
DictNoKey == Dict(AllKeys \ {"colhido"},
                  Args(L2, manual, D29fev, Num(2), Num(1), <<>>,
                       Num(5000), Num(5000)))
DictDerive == Dict(RequiredKeys, Args(L3, mecanica, D29fev, Num(3), Num(1),
                                      <<>>, NoneV, NoneV))

\* what the file can hold when the process starts
ExternalFiles ==
    {Ausente, Malformado, Escalar,
     Lista(<<>>),
     Lista(<<DictA, DictB>>),
     Lista(<<DictA, DictBadRange>>),
     Lista(<<DictA, DictNoKey>>),
     Lista(<<DictC, DictDerive, DictA>>)}

(***************************************************************************)
(* State of the three specifications                                       *)
(***************************************************************************)
NoCall ==
    [op |-> "init", ret |-> FALSE, id |-> <<>>, rec |-> NoRec,
     pre |-> <<>>, again |-> FALSE, est |-> NoEst]

Call(op, ret, id, rec, pre, again) ==
    [op |-> op, ret |-> ret, id |-> id, rec |-> rec, pre |-> pre,
     again |-> again, est |-> NoEst]

NoArred == [manual |-> 0, mecanica |-> 0, diferenca |-> 0]

NoArgs ==
    [a |-> Args(<<>>, <<>>, <<>>, NoneV, NoneV, <<>>, NoneV, NoneV),
     lim |-> LimA, lim2 |-> LimA, fe |-> 0, fl |-> 0]

NoObj == [feito |-> FALSE, ok |-> FALSE, err |-> "", rec |-> NoRec]

Done(r) == [feito |-> TRUE, ok |-> r.ok, err |-> r.err, rec |-> r.rec]

NoCin == [previsto |-> 0, colhido |-> 0, fe |-> 0, fl |-> 0]
NoCout ==
    [feito |-> FALSE, eficiencia |-> 0, perda |-> 0,
     m_eficiencia |-> 0, m_perda |-> 0]

StoreIdle ==
    /\ colheitas = <<>>
    /\ arquivo = Ausente
    /\ limites = LimA
    /\ last = NoCall

CtorIdle == ent = NoArgs /\ obj = NoObj /\ copia = NoObj

CalcIdle == cin = NoCin /\ cout = NoCout

EstIdle == arred = NoArred

DbIdle == tabela = <<>>

(***************************************************************************)
(* The service: a process starts with an empty list, its configuration and *)
(* whatever the file holds                                                 *)
(***************************************************************************)
Init ==
    /\ colheitas = <<>>
    /\ arquivo \in ExternalFiles
    /\ limites \in LimitConfigs
    /\ last = NoCall
    /\ CtorIdle
    /\ CalcIdle
    /\ DbIdle
    /\ EstIdle

Adicionar ==
    \E c \in Objetos(limites) :
        /\ IndexOf(colheitas, c.id_lote) # 0 \/ Len(colheitas) < MaxStore
        /\ colheitas' = adicionar_colheita(colheitas, c)
        /\ last' = Call("adicionar", TRUE, c.id_lote, c, colheitas,
                        last.op = "adicionar" /\ last.rec = c)
        /\ UNCHANGED <<arquivo, limites, ctorVars, calcVars, estVars, dbVars>>

Remover ==
    \E id \in QueryIds :
        LET r == remover_colheita(colheitas, id)
        IN  /\ colheitas' = r.colheitas
            /\ last' = Call("remover", r.ret, id, NoRec, colheitas, FALSE)
            /\ UNCHANGED <<arquivo, limites, ctorVars, calcVars, estVars, dbVars>>

\* salvar_json: the dump succeeds; or makedirs/open raises and the file is
\* left as it was; or the dump raises after open(..., 'w') truncated the file
Salvar ==
    \E outcome \in {"ok", "open_raises", "dump_raises"} :
        /\ arquivo' = CASE outcome = "ok" -> salvar_json(colheitas)
                        [] outcome = "open_raises" -> arquivo
                        [] outcome = "dump_raises" -> Malformado
        /\ last' = Call("salvar", outcome = "ok", <<>>, NoRec, colheitas,
                        FALSE)
        /\ UNCHANGED <<colheitas, limites, ctorVars, calcVars, estVars, dbVars>>

Carregar ==
    \E fe \in FloatErr, fl \in FloatErr :
        LET r == carregar_json(colheitas, arquivo, limites, fe, fl)
        IN  /\ Len(r.colheitas) <= MaxStore
            /\ colheitas' = r.colheitas
            /\ last' = Call("carregar", r.ret, <<>>, NoRec, colheitas,
                            last.op = "salvar" /\ last.ret)
            /\ UNCHANGED <<arquivo, limites, ctorVars, calcVars, estVars, dbVars>>

Next == Adicionar \/ Remover \/ Salvar \/ Carregar

Spec == Init /\ [][Next]_vars

\* the service used through adicionar_colheita and remover_colheita only
NextUpsertRemove == Adicionar \/ Remover

SpecUpsertRemove == Init /\ [][NextUpsertRemove]_vars

(***************************************************************************)
(* Statistics of a given store: the call, and the call again               *)
(***************************************************************************)
EstEfics == {0, 1, 3, 5}

ArredEnv == [manual : FloatErr, mecanica : FloatErr, diferenca : FloatErr]

\* the id_lote of the i-th record of a given store
EstId(i) == <<"L", CHOOSE c \in Digits : DigitVal(c) = i>>

EstRecord(i, tipo, eficiencia) ==
    [id_lote |-> EstId(i), tipo |-> tipo, data |-> D29fev, previsto |-> 2,
     colhido |-> 1, obs |-> <<>>, eficiencia |-> eficiencia,
     perda |-> 10000 - eficiencia]

\* the stores of n records, one id_lote each
RECURSIVE EstStoresOfLen(_)
EstStoresOfLen(n) ==
    IF n = 0 THEN {<<>>}
    ELSE {Append(st, EstRecord(n, tipo, e)) :
              st \in EstStoresOfLen(n - 1), tipo \in TIPOS_COLHEITA,
              e \in EstEfics}

EstStores == UNION {EstStoresOfLen(n) : n \in 0..MaxEstat}

InitEstat ==
    /\ colheitas \in EstStores
    /\ arquivo = Ausente
    /\ limites = LimA
    /\ last = NoCall
    /\ arred \in ArredEnv
    /\ CtorIdle
    /\ CalcIdle
    /\ DbIdle

\* variant: a call that empties the list it has read
CalcularEstatisticas_esvazia ==
    /\ colheitas' = <<>>
    /\ last' = [Call("estatisticas", TRUE, <<>>, NoRec, colheitas,
                     last.op = "estatisticas")
                   EXCEPT !.est = calcular_estatisticas(colheitas, arred)]
    /\ UNCHANGED <<arquivo, limites, ctorVars, calcVars, estVars, dbVars>>

CalcularEstatisticas ==
    /\ colheitas' = colheitas
    /\ last' = [Call("estatisticas", TRUE, <<>>, NoRec, colheitas,
                     last.op = "estatisticas")
                   EXCEPT !.est = calcular_estatisticas(colheitas, arred)]
    /\ UNCHANGED <<arquivo, limites, ctorVars, calcVars, estVars, dbVars>>

NextEstat == CalcularEstatisticas

SpecEstat == InitEstat /\ [][NextEstat]_vars

\* the service used through adicionar_colheita, remover_colheita and
\* calcular_estatisticas
InitStats ==
    /\ colheitas = <<>>
    /\ arquivo = Ausente
    /\ limites \in LimitConfigs
    /\ last = NoCall
    /\ arred \in ArredEnv
    /\ CtorIdle
    /\ CalcIdle
    /\ DbIdle

NextStats == Adicionar \/ Remover \/ CalcularEstatisticas

SpecStats == InitStats /\ [][NextStats]_vars

(***************************************************************************)
(* The relational adapter: inserir_colheita and excluir_colheita on the    *)
(* table criar_tabela_colheitas has created                                *)
(***************************************************************************)
\* the records a caller passes: those of the store model and one whose given
\* efficiency does not fit NUMBER(5,2)
DbArgs ==
    StoreArgs \cup {Args(L1, manual, D29fev, Num(2), Num(1), <<>>,
                         Num(100000), Num(0))}

DbObjetos(lim) ==
    {Construct(a, lim, 0, 0).rec :
        a \in {b \in DbArgs : Construct(b, lim, 0, 0).ok}}

InitDb ==
    /\ colheitas = <<>>
    /\ arquivo = Ausente
    /\ limites \in LimitConfigs
    /\ last = NoCall
    /\ tabela = <<>>
    /\ CtorIdle
    /\ cin = NoCin
    /\ cout = NoCout
    /\ EstIdle

Inserir ==
    \E c \in DbObjetos(limites), falha \in Falhas :
        LET r == inserir_colheita(tabela, c, falha)
        IN  /\ tabela' = r.tabela
            /\ last' = Call("inserir", r.ret, c.id_lote, c, tabela, FALSE)
            /\ UNCHANGED <<colheitas, arquivo, limites, ctorVars, calcVars,
                           estVars>>

Excluir ==
    \E id \in QueryIds, falha \in Falhas :
        LET r == excluir_colheita(tabela, id, falha)
        IN  /\ tabela' = r.tabela
            /\ last' = Call("excluir", r.ret, id, NoRec, tabela, FALSE)
            /\ UNCHANGED <<colheitas, arquivo, limites, ctorVars, calcVars,
                           estVars>>

NextDb == Inserir \/ Excluir

SpecDb == InitDb /\ [][NextDb]_vars

(***************************************************************************)
(* The interactive flow: main() starts with an empty list and whatever the *)
(* file holds, written by an earlier run or by hand; the menu registers    *)
(* and loads                                                               *)
(***************************************************************************)
MainFiles ==
    {Ausente, Malformado, Escalar, Lista(<<DictA, DictB>>),
     Lista(<<DictC, DictA>>)}

\* the answers typed into registrar_colheita; the type is the answer that
\* ends the input loop
Entradas ==
    [id_lote : StoreIds,
     resposta : {<<"s">>, <<"S">>, <<"n">>},
     tipo : {manual, <<"M", "E", "C", "A", "N", "I", "C", "A">>},
     previsto : {2},
     colhido : {1, 3},
     data : {D29fev},
     obs : {<<>>},
     fe : {0},
     fl : {0}]

InitMain ==
    /\ colheitas = <<>>
    /\ arquivo \in MainFiles
    /\ limites = LimA
    /\ last = NoCall
    /\ CtorIdle
    /\ CalcIdle
    /\ DbIdle
    /\ EstIdle

RegistrarColheita ==
    \E e \in Entradas :
        LET r == registrar_colheita(colheitas, e)
        IN  /\ lower(e.tipo) \in tipos_validos
            /\ IndexOf(colheitas, e.id_lote) # 0 \/ Len(colheitas) < MaxStore
            /\ colheitas' = r.colheitas
            /\ last' = Call("registrar", r.ret, e.id_lote, r.rec, colheitas,
                            FALSE)
            /\ UNCHANGED <<arquivo, limites, ctorVars, calcVars, estVars,
                           dbVars>>

CarregarColheitasJson ==
    \E abre \in BOOLEAN :
        LET r == carregar_colheitas_json(arquivo, abre)
        IN  /\ Len(r.colheitas) <= MaxStore
            /\ colheitas' = r.colheitas
            /\ last' = Call("carregar_main", r.ret, <<>>, NoRec, colheitas,
                            FALSE)
            /\ UNCHANGED <<arquivo, limites, ctorVars, calcVars, estVars,
                           dbVars>>

NextMain == RegistrarColheita \/ CarregarColheitasJson

SpecMain == InitMain /\ [][NextMain]_vars

(***************************************************************************)
(* The constructor on its own: one call, then a round trip of the record   *)
(* through para_dict and de_dict under the limits of a later run           *)
(***************************************************************************)
CtorIds == {L1, Blank}
CtorTipos == {manual, <<"M", "e", "c", "a", "n", "i", "c", "a">>,
              <<"t", "r", "a", "t", "o", "r">>}
CtorDatas == {D29fev, D31fev}
CtorPrevistos == {Num(0), Num(2), StrNum(4), BadStr}
CtorColhidos == {Num(1), Num(3), NoneV}
CtorEficPerda ==
    {<<NoneV, NoneV>>, <<Num(25000), Num(-15000)>>, <<Num(1234), NoneV>>,
     <<NoneV, Num(1)>>, <<BadStr, Num(0)>>}

CtorInputs ==
    {[a |-> Args(id, tipo, data, previsto, colhido, <<"o", "k">>,
                 ep[1], ep[2]),
      lim |-> lim, lim2 |-> lim2, fe |-> fe, fl |-> fl] :
        id \in CtorIds, tipo \in CtorTipos, data \in CtorDatas,
        previsto \in CtorPrevistos, colhido \in CtorColhidos,
        ep \in CtorEficPerda, lim \in LimitConfigs, lim2 \in LimitConfigs,
        fe \in FloatErr, fl \in FloatErr}

InitColheita ==
    /\ StoreIdle
    /\ CalcIdle
    /\ DbIdle
    /\ EstIdle
    /\ ent \in CtorInputs
    /\ obj = NoObj
    /\ copia = NoObj

Construir ==
    /\ ~obj.feito
    /\ obj' = Done(Construct(ent.a, ent.lim, ent.fe, ent.fl))
    /\ UNCHANGED <<ent, copia, storeVars, calcVars, estVars, dbVars>>

Reconstruir ==
    /\ obj.feito
    /\ obj.ok
    /\ ~copia.feito
    /\ copia' = Done(de_dict(para_dict(obj.rec), ent.lim2, ent.fe, ent.fl))
    /\ UNCHANGED <<ent, obj, storeVars, calcVars, estVars, dbVars>>

NextColheita == Construir \/ Reconstruir

SpecColheita == InitColheita /\ [][NextColheita]_vars

(***************************************************************************)
(* The constructor on dates of the form DD/MM/AAAA, the other arguments   *)
(* valid                                                                   *)
(***************************************************************************)
DataDias == {<<"0", "0">>, <<"0", "1">>, <<"2", "9">>, <<"3", "0">>,
             <<"3", "1">>, <<"3", "2">>}
DataMeses == {<<"0", "0">>, <<"0", "2">>, <<"0", "4">>, <<"1", "2">>,
              <<"1", "3">>}
DataAnos == {<<"0", "0", "0", "0">>, <<"0", "0", "0", "1">>,
             <<"1", "9", "0", "0">>, <<"2", "0", "0", "0">>,
             <<"2", "0", "2", "3">>, <<"2", "0", "2", "4">>,
             <<"9", "9", "9", "9">>}

DataInputs ==
    {[a |-> Args(L1, manual, dd \o <<"/">> \o mm \o <<"/">> \o aaaa,
                 Num(2), Num(1), <<>>, NoneV, NoneV),
      lim |-> LimA, lim2 |-> LimA, fe |-> 0, fl |-> 0] :
        dd \in DataDias, mm \in DataMeses, aaaa \in DataAnos}

InitData ==
    /\ StoreIdle
    /\ CalcIdle
    /\ DbIdle
    /\ EstIdle
    /\ ent \in DataInputs
    /\ obj = NoObj
    /\ copia = NoObj

NextData == Construir

SpecData == InitData /\ [][NextData]_vars

(***************************************************************************)
(* The calculator on its own                                               *)
(***************************************************************************)
CalcPrevistos == {-2, 0, 1, 3, 7, 32, 160}
CalcColhidos == {-3, 0, 1, 2, 3, 8, 23, 33, 161}

CalcInputs ==
    [previsto : CalcPrevistos, colhido : CalcColhidos,
     fe : FloatErr, fl : FloatErr]

InitCalc ==
    /\ StoreIdle
    /\ CtorIdle
    /\ EstIdle
    /\ DbIdle
    /\ cin \in CalcInputs
    /\ cout = NoCout

Calcular ==
    /\ ~cout.feito
    /\ LET ep == _calcular_eficiencia(cin.previsto, cin.colhido,
                                      cin.fe, cin.fl)
           mp == calcular_eficiencia(cin.previsto, cin.colhido,
                                     cin.fe, cin.fl)
       IN  cout' = [feito |-> TRUE, eficiencia |-> ep[1], perda |-> ep[2],
                    m_eficiencia |-> mp[1], m_perda |-> mp[2]]
    /\ UNCHANGED <<cin, storeVars, ctorVars, estVars, dbVars>>

NextCalc == Calcular

SpecCalc == InitCalc /\ [][NextCalc]_vars

(***************************************************************************)
(* Properties                                                              *)
(***************************************************************************)
UniqueIds(store) ==
    \A i \in 1..Len(store) : \A j \in 1..Len(store) :
        i # j => store[i].id_lote # store[j].id_lote

HasId(store, id_lote) == \E i \in 1..Len(store) : store[i].id_lote = id_lote

CountId(store, id_lote) ==
    Cardinality({i \in 1..Len(store) : store[i].id_lote = id_lote})

\* C1: with adicionar_colheita and remover_colheita only, from the empty
\* service, no two records of the list have the same id_lote.
C1_UniqueIds == UniqueIds(colheitas)

C1_Witness ==
    /\ last.op = "adicionar"
    /\ HasId(last.pre, last.id)
    /\ Len(colheitas) = 2
    /\ last.pre # colheitas

\* C2: after a successful carregar_json no two records of the list have the
\* same id_lote, whatever the file held.
C2_LoadKeepsIdsUnique ==
    (last.op = "carregar" /\ last.ret) => UniqueIds(colheitas)

C4_UpsertIdempotent ==
    (last.op = "adicionar" /\ last.again) =>
        /\ colheitas = last.pre
        /\ Len(colheitas) = Len(last.pre)
        /\ CountId(colheitas, last.id) = 1

\* C5: remover_colheita(id) returns True exactly when the list held a record
\* with that id_lote; then the list has no record with that id, is one
\* shorter and keeps the order of the others; on False the list is unchanged.
C5_Remove ==
    last.op = "remover" =>
        /\ last.ret <=> HasId(last.pre, last.id)
        /\ last.ret =>
              /\ ~HasId(colheitas, last.id)
              /\ Len(colheitas) = Len(last.pre) - 1
              /\ \E i \in 1..Len(last.pre) : colheitas = DelAt(last.pre, i)
        /\ ~last.ret => colheitas = last.pre

\* the file cannot be loaded: it is missing, is not a JSON array of objects,
\* or one of its objects is rejected by the constructor
Unloadable(arq, lim) ==
    \/ arq.kind # "lista"
    \/ \E i \in 1..Len(arq.dados) : ~de_dict(arq.dados[i], lim, 0, 0).ok

\* C6: a carregar_json that fails returns False and leaves the list exactly
\* as it was before the call, also when the first records of the file were
\* accepted.
C6_LoadAllOrNothing ==
    last.op = "carregar" =>
        /\ Unloadable(arquivo, limites) => ~last.ret
        /\ ~last.ret => colheitas = last.pre

C6_Witness ==
    /\ last.op = "carregar"
    /\ ~last.ret
    /\ last.pre # <<>>
    /\ arquivo.kind = "lista"
    /\ Len(arquivo.dados) = 2
    /\ de_dict(arquivo.dados[1], limites, 0, 0).ok
    /\ ~de_dict(arquivo.dados[2], limites, 0, 0).ok
    /\ de_dict(arquivo.dados[1], limites, 0, 0).rec # last.pre[1]

\* C7: de_dict(para_dict(r)) succeeds and equals r in all eight fields for
\* every constructed record r, whatever the limits are by then.
C7_RoundTripAnyLimits ==
    copia.feito => (copia.ok /\ copia.rec = obj.rec)

\* the five checks of the constructor pass on the arguments a
ValidArgs(a, lim) ==
    /\ _validar_id_lote(a.id_lote)
    /\ _validar_tipo(a.tipo)
    /\ _validar_data(a.data)
    /\ _validar_previsto(a.previsto, lim)
    /\ _validar_colhido(a.colhido, lim)

\* C8: a constructor given both eficiencia and perda keeps the two values as
\* given and does not derive them; given only one or none of them, it derives
\* both from previsto and colhido.
C8_PrecomputedTrusted ==
    (obj.feito /\ ValidArgs(ent.a, ent.lim)) =>
        IF ent.a.eficiencia # NoneV /\ ent.a.perda # NoneV
        THEN obj.ok =>
                /\ obj.rec.eficiencia = Float(ent.a.eficiencia)
                /\ obj.rec.perda = Float(ent.a.perda)
        ELSE /\ obj.ok
             /\ <<obj.rec.eficiencia, obj.rec.perda>> =
                    _calcular_eficiencia(Float(ent.a.previsto),
                                         Float(ent.a.colhido),
                                         ent.fe, ent.fl)

C8_Witness ==
    /\ obj.feito
    /\ obj.ok
    /\ ent.a.eficiencia = Num(25000)
    /\ ent.a.perda = Num(-15000)
    /\ obj.rec.eficiencia = 25000
    /\ obj.rec.perda = -15000
    /\ _calcular_eficiencia(obj.rec.previsto, obj.rec.colhido, 0, 0)
           # <<25000, -15000>>

\* C9: every record of the list has an efficiency and a loss within 0..100 %
\* and, when previsto > 0, efficiency + loss = 100 %.
C9_RecordsInRange ==
    \A i \in 1..Len(colheitas) :
        /\ 0 <= colheitas[i].eficiencia /\ colheitas[i].eficiencia <= 10000
        /\ 0 <= colheitas[i].perda /\ colheitas[i].perda <= 10000
        /\ colheitas[i].previsto > 0 =>
              colheitas[i].eficiencia + colheitas[i].perda = 10000

\* C10: for colhido > previsto > 0 the calculation yields exactly 100 % and
\* 0 %, never an efficiency above 100 % or a negative loss.
C10_CappedAt100 ==
    (cout.feito /\ cin.colhido > cin.previsto /\ cin.previsto > 0) =>
        (cout.eficiencia = 10000 /\ cout.perda = 0)

C10_Witness ==
    /\ cout.feito
    /\ cin.previsto = 7
    /\ cin.colhido = 8
    /\ cout.eficiencia = 10000
    /\ cout.perda = 0

\* C11: for previsto > 0 and 0 <= colhido <= previsto the derived efficiency
\* is within 0..100 % and efficiency + loss is within 0.01 of 100 %, each
\* value rounded on its own.
C11_SumWithinTolerance ==
    (cout.feito /\ cin.previsto > 0 /\ 0 <= cin.colhido
                /\ cin.colhido <= cin.previsto) =>
        /\ 0 <= cout.eficiencia /\ cout.eficiencia <= 10000
        /\ cout.eficiencia + cout.perda - 10000 \in {-1, 0, 1}

C11_Witness ==
    /\ cout.feito
    /\ cin.previsto = 160
    /\ cin.colhido = 23
    /\ cout.eficiencia = 1437
    /\ cout.perda = 8562

\* C12: for previsto <= 0 and any colhido both calculations, the one of
\* Colheita and the one of the interactive flow, return 0.0 and 0.0.
C12_NothingPredicted ==
    (cout.feito /\ cin.previsto <= 0) =>
        /\ cout.eficiencia = 0 /\ cout.perda = 0
        /\ cout.m_eficiencia = 0 /\ cout.m_perda = 0

C12_Witness ==
    /\ cout.feito
    /\ cin.previsto = 0
    /\ cin.colhido = 8
    /\ cout.eficiencia = 0 /\ cout.perda = 0
    /\ cout.m_eficiencia = 0 /\ cout.m_perda = 0

\* the check that fails first, in the order of the constructor
FirstFailure(a, lim) ==
    IF ~_validar_id_lote(a.id_lote) THEN "id_lote"
    ELSE IF ~_validar_tipo(a.tipo) THEN "tipo"
    ELSE IF ~_validar_data(a.data) THEN "data"
    ELSE IF ~_validar_previsto(a.previsto, lim) THEN "previsto"
    ELSE IF ~_validar_colhido(a.colhido, lim) THEN "colhido"
    ELSE ""

\* both eficiencia and perda are supplied and one of them is not a number
BadPrecomputed(a) ==
    /\ a.eficiencia # NoneV
    /\ a.perda # NoneV
    /\ (FloatRaises(a.eficiencia) \/ FloatRaises(a.perda))

FormaDDMMAAAA(data) ==
    /\ Len(data) = 10
    /\ \A i \in {1, 2, 4, 5, 7, 8, 9, 10} : data[i] \in Digits
    /\ data[3] = "/"
    /\ data[6] = "/"

\* the Gregorian calendar: the number of days of month mes of year ano
DiasDoMes(ano, mes) ==
    CASE mes \in {1, 3, 5, 7, 8, 10, 12} -> 31
      [] mes \in {4, 6, 9, 11} -> 30
      [] OTHER -> IF ano % 400 = 0 THEN 29
                  ELSE IF ano % 100 = 0 THEN 28
                  ELSE IF ano % 4 = 0 THEN 29
                  ELSE 28

DataReal(data) ==
    /\ ParseInt(data, 4, 5) \in 1..12
    /\ ParseInt(data, 1, 2) \in
           1..DiasDoMes(ParseInt(data, 7, 10), ParseInt(data, 4, 5))

\* C14 as stated: a date of the form DD/MM/YYYY is accepted if and only if
\* its month is in 1..12 and its day in 1..days-in-month under the Gregorian
\* leap-year rule.
C14_RealDateAccepted ==
    (obj.feito /\ FormaDDMMAAAA(ent.a.data)) =>
        (obj.err # "data" <=> DataReal(ent.a.data))

\* C14: a date of the form DD/MM/YYYY is accepted if and only if its year is
\* in 1..9999, its month in 1..12 and its day in 1..days-in-month under the
\* Gregorian leap-year rule; 31/02/2024 is rejected and 29/02/2024 accepted.
C14_RealDateFromYearOne ==
    (obj.feito /\ FormaDDMMAAAA(ent.a.data)) =>
        (obj.err # "data" <=>
            (DataReal(ent.a.data) /\ ParseInt(ent.a.data, 7, 10) \in 1..9999))

C14_Witness ==
    /\ obj.feito
    /\ ent.a.data = D29fev
    /\ obj.ok
    /\ obj.rec.data = D29fev

\* the number of records of store with this tipo
Contagem(store, tipo) ==
    Cardinality({i \in 1..Len(store) : store[i].tipo = tipo})

\* the sum of eficiencia over the records of store with this tipo
RECURSIVE SomaDoTipo(_, _)
SomaDoTipo(store, tipo) ==
    IF store = <<>> THEN 0
    ELSE (IF Head(store).tipo = tipo THEN Head(store).eficiencia ELSE 0)
         + SomaDoTipo(Tail(store), tipo)

\* C15: the recommendations follow the decision table: no records, only
\* manual, only mechanized, and with both present the three strings favoring
\* manual when the manual average is greater, the three strings favoring
\* mechanized when the mechanized average is greater, and the single
\* 'similar' string when the two averages are equal.
C15_DecisionTable ==
    last.op = "estatisticas" =>
        LET nm == Contagem(last.pre, manual)
            nc == Contagem(last.pre, mecanica)
            sm == SomaDoTipo(last.pre, manual)
            sc == SomaDoTipo(last.pre, mecanica)
            recs == last.est.recomendacoes
            dif == last.est.diferenca
        IN  IF nm = 0 /\ nc = 0 THEN recs = <<SemDados>>
            ELSE IF nc = 0 THEN recs = <<ApenasManual>>
            ELSE IF nm = 0 THEN recs = <<ApenasMecanica>>
            ELSE IF sm * nc > sc * nm
            THEN recs = <<ManualMelhor(dif), Calibracao, Treinamento>>
            ELSE IF sm * nc < sc * nm
            THEN recs = <<MecanicaMelhor(dif), Procedimentos, EquipeDeCampo>>
            ELSE recs = <<Similar>>

\* C16 as stated: the returned difference is the absolute difference of the
\* two average efficiencies the same call returns.
C16_DifferenceOfReturnedAverages ==
    last.op = "estatisticas" =>
        last.est.diferenca =
            Abs(last.est.manual.eficiencia_media
                - last.est.mecanica.eficiencia_media)

\* C16: the returned difference is the absolute difference of the two
\* unrounded group means, rounded to 2 decimals; it is within 0.01 of the
\* absolute difference of the two averages the same call returns.
C16_DifferenceOfMeans ==
    last.op = "estatisticas" =>
        LET nm == Contagem(last.pre, manual)
            nc == Contagem(last.pre, mecanica)
            dm == IF nm = 0 THEN 1 ELSE nm
            dc == IF nc = 0 THEN 1 ELSE nc
            n == Abs(SomaDoTipo(last.pre, manual) * dc
                     - SomaDoTipo(last.pre, mecanica) * dm)
            dif == last.est.diferenca
        IN  /\ 2 * Abs(dif * dm * dc - n) <= dm * dc
            /\ Abs(dif - Abs(last.est.manual.eficiencia_media
                             - last.est.mecanica.eficiencia_media)) <= 1

C16_Witness ==
    /\ last.op = "estatisticas"
    /\ Contagem(colheitas, manual) = 2
    /\ Contagem(colheitas, mecanica) = 1
    /\ SomaDoTipo(colheitas, manual) = 1
    /\ SomaDoTipo(colheitas, mecanica) = 1
    /\ last.est.manual.eficiencia_media = 1
    /\ last.est.mecanica.eficiencia_media = 1
    /\ last.est.diferenca = 1

\* C17 as stated: the returned counts are the numbers of manual and of
\* mechanized records, and each returned average is the arithmetic mean of
\* eficiencia over the group, or 0 for an empty group.
C17_CountsAndExactMeans ==
    last.op = "estatisticas" =>
        /\ last.est.manual.total = Contagem(last.pre, manual)
        /\ last.est.mecanica.total = Contagem(last.pre, mecanica)
        /\ last.est.manual.eficiencia_media * Contagem(last.pre, manual)
               = SomaDoTipo(last.pre, manual)
        /\ last.est.mecanica.eficiencia_media * Contagem(last.pre, mecanica)
               = SomaDoTipo(last.pre, mecanica)
        /\ Contagem(last.pre, manual) = 0 =>
               last.est.manual.eficiencia_media = 0
        /\ Contagem(last.pre, mecanica) = 0 =>
               last.est.mecanica.eficiencia_media = 0

\* C17: the returned counts are the numbers of manual and of mechanized
\* records, and each returned average is the arithmetic mean of eficiencia
\* over the group rounded to 2 decimals, or 0 for an empty group.
C17_CountsAndRoundedMeans ==
    last.op = "estatisticas" =>
        LET nm == Contagem(last.pre, manual)
            nc == Contagem(last.pre, mecanica)
        IN  /\ last.est.manual.total = nm
            /\ last.est.mecanica.total = nc
            /\ last.est.total = Len(last.pre)
            /\ 2 * Abs(last.est.manual.eficiencia_media * nm
                       - SomaDoTipo(last.pre, manual)) <= nm
            /\ 2 * Abs(last.est.mecanica.eficiencia_media * nc
                       - SomaDoTipo(last.pre, mecanica)) <= nc
            /\ nm = 0 => last.est.manual.eficiencia_media = 0
            /\ nc = 0 => last.est.mecanica.eficiencia_media = 0

C17_Witness ==
    /\ last.op = "estatisticas"
    /\ Len(colheitas) = 3
    /\ last.est.manual.total = 2
    /\ last.est.mecanica.total = 1
    /\ SomaDoTipo(colheitas, manual) = 1
    /\ last.est.manual.eficiencia_media = 1
    /\ last.est.mecanica.eficiencia_media = 5

\* C18: on an empty store calcular_estatisticas returns total 0, both counts
\* 0, both averages 0, difference 0 and the single 'not enough data' string.
C18_EmptyStore ==
    (last.op = "estatisticas" /\ last.pre = <<>>) =>
        /\ last.est.total = 0
        /\ last.est.manual = [total |-> 0, eficiencia_media |-> 0]
        /\ last.est.mecanica = [total |-> 0, eficiencia_media |-> 0]
        /\ last.est.diferenca = 0
        /\ last.est.recomendacoes = <<SemDados>>

C18_Witness ==
    /\ last.op = "estatisticas"
    /\ colheitas = <<>>
    /\ last.pre = <<>>
    /\ last.est.total = 0
    /\ Len(last.est.recomendacoes) = 1

C20_SaveThenLoad ==
    (last.op = "carregar" /\ last.again /\ last.ret) => colheitas = last.pre

C20_Witness ==
    /\ last.op = "carregar"
    /\ last.again
    /\ last.ret
    /\ Len(colheitas) = 2
    /\ colheitas = last.pre
    /\ colheitas[1].id_lote = L2
    /\ colheitas[1].eficiencia = 25000
    /\ colheitas[1].perda = -15000
    /\ arquivo = salvar_json(colheitas)

C22_FailedLoadKeepsList ==
    (last.op = "carregar_main" /\ ~last.ret) => colheitas = last.pre

\* C23: every dictionary appended by registrar_colheita has efficiency
\* within 0..100 and loss within 0..100.
C23_RegisteredInRange ==
    (last.op = "registrar" /\ last.ret) =>
        /\ 0 <= last.rec.eficiencia /\ last.rec.eficiencia <= 10000
        /\ 0 <= last.rec.perda /\ last.rec.perda <= 10000

\* C24: a registrar_colheita call on a list whose id_lote values are
\* pairwise distinct leaves them pairwise distinct, whichever way the
\* overwrite prompt is answered, and a declined overwrite leaves the list
\* unchanged.
C24_RegisterKeepsIdsUnique ==
    (last.op = "registrar" /\ UniqueIds(last.pre)) =>
        /\ UniqueIds(colheitas)
        /\ ~last.ret => colheitas = last.pre

C24_Witness ==
    /\ last.op = "registrar"
    /\ ~last.ret
    /\ UniqueIds(last.pre)
    /\ Len(last.pre) = 2
    /\ HasId(last.pre, last.id)
    /\ colheitas = last.pre

\* the id_lote values of a list, in order
IdsEmOrdem(lista) == [i \in 1..Len(lista) |-> lista[i].id_lote]

C26_TotalIsSumOfGroups ==
    last.op = "estatisticas" =>
        /\ last.est.total = Len(last.pre)
        /\ last.est.total = last.est.manual.total + last.est.mecanica.total

C26_Witness ==
    /\ last.op = "estatisticas"
    /\ Len(colheitas) = 2
    /\ colheitas[1].tipo = manual
    /\ colheitas[2].tipo = mecanica
    /\ colheitas[2].eficiencia = 25000
    /\ last.est.total = 2
    /\ last.est.manual.total = 1
    /\ last.est.mecanica.total = 1

====
